---- MODULE Spec2Model ----
(***************************************************************************)
(* Model of salt/states/win_servermanager.py: the state functions          *)
(* installed(name, recurse, force) and removed(name).                      *)
(*                                                                         *)
(* The names the module reads from its environment (__salt__, __opts__,    *)
(* salt.utils.compare_dicts) are collaborators.  The feature manager of    *)
(* the machine is the variable `features`; win_servermanager.install and   *)
(* win_servermanager.remove answer with a nondeterministic operation       *)
(* result and change `features` only by adding, resp. dropping, keys.      *)
(* A Python dict is a TLA+ function, a formatted string is the sequence of *)
(* its pieces, and the result tri-state True/False/None is a string.       *)
(***************************************************************************)
EXTENDS Integers, Sequences, FiniteSets, TLC

\* ---------------------------------------------------------------- bounds
MaxFeatures == 2

AllNames == <<"Web-Server", "Telnet-Client", "DNS", "DHCP", "Fax">>

Min(a, b) == IF a < b THEN a ELSE b

Names == {AllNames[i] : i \in 1..Min(MaxFeatures, Len(AllNames))}

ExitCodes == {0, 1603}

\* DisplayName values of an operation result, as sequences of pieces
DisplayNames == {<<"Web Server (IIS)">>,
                 <<"Web Server (IIS) is ", "already installed">>}

\* ------------------------------------------------------------- data model
EmptyDict == [k \in {} |-> ""]

ResTrue == "True"
ResFalse == "False"
ResNone == "None"

PyBool(b) == IF b THEN ResTrue ELSE ResFalse

DisplayNameOf(k) == <<"Display name of ", k>>

\* the snapshots list_installed can return: feature id -> display name
StatusOf(S) == [k \in S |-> DisplayNameOf(k)]

AllStatus == {StatusOf(S) : S \in SUBSET Names}

OperationResults ==
    [Success : BOOLEAN, DisplayName : DisplayNames, ExitCode : ExitCodes]

\* 'piece' in text, for a text held as a sequence of pieces
Contains(text, piece) == \E i \in 1..Len(text) : text[i] = piece

\* salt.utils.compare_dicts(old, new)
compare_dicts(o, n) ==
    [k \in {j \in (DOMAIN o) \cup (DOMAIN n) :
               \/ j \notin DOMAIN o
               \/ j \notin DOMAIN n
               \/ o[j] # n[j]}
       |-> IF k \notin DOMAIN o THEN [old |-> <<>>, new |-> n[k]]
           ELSE IF k \notin DOMAIN n THEN [old |-> o[k], new |-> <<>>]
           ELSE [old |-> o[k], new |-> n[k]]]

\* ------------------------------------------------------------------ state
VARIABLES features, pc, fn, name, recurse, force, test, ret, old, new,
          status, trace, exc, prev

vars == <<features, pc, fn, name, recurse, force, test, ret, old, new,
          status, trace, exc, prev>>

args == <<fn, name, recurse, force, test>>

\* number of entries of the call log that are in the set E
RECURSIVE Count(_, _)
Count(s, E) ==
    IF s = <<>> THEN 0
    ELSE (IF Head(s) \in E THEN 1 ELSE 0) + Count(Tail(s), E)

Mutators == {"install", "remove"}

NoPrev == [fn |-> "none", name |-> "", recurse |-> FALSE, force |-> FALSE,
           test |-> FALSE, absent |-> FALSE, added |-> FALSE, installs |-> 0]

\* the report both functions start from
NewRet(n) == [name |-> n, result |-> ResTrue, changes |-> EmptyDict,
              comment |-> <<>>]

Init ==
    /\ features \in AllStatus
    /\ pc = "idle"
    /\ fn = "none"
    /\ name = ""
    /\ recurse = FALSE
    /\ force = FALSE
    /\ test = FALSE
    /\ ret = NewRet("")
    /\ old = EmptyDict
    /\ new = EmptyDict
    /\ status = EmptyDict
    /\ trace = <<>>
    /\ exc = "none"
    /\ prev = NoPrev

\* ------------------------------------------------------------- installed
\* the state engine calls installed(name, recurse, force)
call_installed ==
    /\ pc = "idle"
    /\ \E n \in Names, r \in BOOLEAN, f \in BOOLEAN, t \in BOOLEAN :
          /\ fn' = "installed"
          /\ name' = n
          /\ recurse' = r
          /\ force' = f
          /\ test' = t
          /\ ret' = NewRet(n)
    /\ old' = EmptyDict
    /\ new' = EmptyDict
    /\ status' = EmptyDict
    /\ trace' = <<>>
    /\ exc' = "none"
    /\ pc' = "installed_list"
    /\ UNCHANGED <<features, prev>>

\* slip: force alone re-runs the install
installed_goes_on_force(o, n, r, f) == n \notin DOMAIN o \/ f

\* slip: the early return of line 59 is lost
installed_goes_on_always(o, n, r, f) == TRUE

\* the branch of lines 53-59: whether to go on, and which comment
installed_goes_on(o, n, r, f) == n \notin DOMAIN o \/ (f /\ r)

installed_comment(o, n, r, f) ==
    IF n \notin DOMAIN o
    THEN <<n, " will be installed recurse=", PyBool(r)>>
    ELSE IF f /\ r
    THEN <<n, " already installed but might install sub-features">>
    ELSE <<"The feature ", n, " is already installed">>

installed_list ==
    /\ pc = "installed_list"
    /\ old' = features
    /\ trace' = Append(trace, "list_installed")
    /\ ret' = [ret EXCEPT !.comment =
                  installed_comment(features, name, recurse, force)]
    /\ pc' = IF installed_goes_on(features, name, recurse, force)
             THEN "installed_test" ELSE "done"
    /\ UNCHANGED <<features, args, new, status, exc, prev>>

\* slip: the dry-run gate only sets the result and falls through
installed_test_fallthrough ==
    /\ pc = "installed_test"
    /\ ret' = IF test THEN [ret EXCEPT !.result = ResNone] ELSE ret
    /\ pc' = "installed_install"
    /\ UNCHANGED <<features, args, old, new, status, trace, exc, prev>>

installed_test ==
    /\ pc = "installed_test"
    /\ IF test
       THEN /\ ret' = [ret EXCEPT !.result = ResNone]
            /\ pc' = "done"
       ELSE /\ ret' = ret
            /\ pc' = "installed_install"
    /\ UNCHANGED <<features, args, old, new, status, trace, exc, prev>>

\* what win_servermanager.install can leave behind: no feature is dropped
AfterInstall(f) == {g \in AllStatus : DOMAIN f \subseteq DOMAIN g}

installed_install ==
    /\ pc = "installed_install"
    /\ status' \in OperationResults
    /\ features' \in AfterInstall(features)
    /\ trace' = Append(trace, "install")
    /\ pc' = "installed_status"
    /\ UNCHANGED <<args, ret, old, new, exc, prev>>

\* lines 68-72; ret['changes']['feature'] is a lookup in the dict as it is
installed_status ==
    /\ pc = "installed_status"
    /\ LET r1 == [ret EXCEPT !.result = PyBool(status.Success)] IN
       IF r1.result # ResTrue /\ "feature" \notin DOMAIN r1.changes
       THEN /\ ret' = r1
            /\ exc' = "KeyError"
            /\ pc' = "raised"
       ELSE LET r2 == IF r1.result # ResTrue
                      THEN [r1 EXCEPT !.comment =
                              <<"Failed to install ", name, ": ",
                                ToString(r1.changes["feature"].ExitCode)>>]
                      ELSE r1
                r3 == IF ~Contains(status.DisplayName, "already installed")
                      THEN [r2 EXCEPT !.changes =
                              [k \in (DOMAIN r2.changes) \cup {"feature"} |->
                                 IF k = "feature" THEN status
                                 ELSE r2.changes[k]]]
                      ELSE r2
            IN /\ ret' = r3
               /\ exc' = exc
               /\ pc' = "installed_relist"
    /\ UNCHANGED <<features, args, old, new, status, trace, prev>>

\* slip: the diff is merged into changes instead of replacing it
installed_relist_update ==
    /\ pc = "installed_relist"
    /\ new' = features
    /\ trace' = Append(trace, "list_installed")
    /\ ret' = [ret EXCEPT !.changes =
                  LET d == compare_dicts(old, features) IN
                  [k \in (DOMAIN ret.changes) \cup (DOMAIN d) |->
                     IF k \in DOMAIN d THEN d[k] ELSE ret.changes[k]]]
    /\ pc' = "done"
    /\ UNCHANGED <<features, args, old, status, exc, prev>>

installed_relist ==
    /\ pc = "installed_relist"
    /\ new' = features
    /\ trace' = Append(trace, "list_installed")
    /\ ret' = [ret EXCEPT !.changes = compare_dicts(old, features)]
    /\ pc' = "done"
    /\ UNCHANGED <<features, args, old, status, exc, prev>>

\* --------------------------------------------------------------- removed
call_removed ==
    /\ pc = "idle"
    /\ \E n \in Names, t \in BOOLEAN :
          /\ fn' = "removed"
          /\ name' = n
          /\ test' = t
          /\ ret' = NewRet(n)
    /\ recurse' = FALSE
    /\ force' = FALSE
    /\ old' = EmptyDict
    /\ new' = EmptyDict
    /\ status' = EmptyDict
    /\ trace' = <<>>
    /\ exc' = "none"
    /\ pc' = "removed_list"
    /\ UNCHANGED <<features, prev>>

\* slip: the membership test is dropped
removed_goes_on_always(o, n) == TRUE

removed_goes_on(o, n) == n \in DOMAIN o

removed_list ==
    /\ pc = "removed_list"
    /\ old' = features
    /\ trace' = Append(trace, "list_installed")
    /\ ret' = [ret EXCEPT !.comment =
                  IF name \in DOMAIN features
                  THEN <<name, " will be removed">>
                  ELSE <<"The feature ", name, " is not installed">>]
    /\ pc' = IF removed_goes_on(features, name)
             THEN "removed_test" ELSE "done"
    /\ UNCHANGED <<features, args, new, status, exc, prev>>

removed_test ==
    /\ pc = "removed_test"
    /\ IF test
       THEN /\ ret' = [ret EXCEPT !.result = ResNone]
            /\ pc' = "done"
       ELSE /\ ret' = ret
            /\ pc' = "removed_remove"
    /\ UNCHANGED <<features, args, old, new, status, trace, exc, prev>>

\* what win_servermanager.remove can leave behind: no feature is added
AfterRemove(f) == {g \in AllStatus : DOMAIN g \subseteq DOMAIN f}

\* slip: a failed removal is tried again
removed_remove_retry ==
    /\ pc = "removed_remove"
    /\ status' \in OperationResults
    /\ features' \in AfterRemove(features)
    /\ trace' = Append(trace, "remove")
    /\ pc' = IF status'.Success THEN "removed_status" ELSE "removed_remove"
    /\ UNCHANGED <<args, ret, old, new, exc, prev>>

removed_remove ==
    /\ pc = "removed_remove"
    /\ status' \in OperationResults
    /\ features' \in AfterRemove(features)
    /\ trace' = Append(trace, "remove")
    /\ pc' = "removed_status"
    /\ UNCHANGED <<args, ret, old, new, exc, prev>>

\* slip undone: the exit code is read from the operation result
removed_status_from_status ==
    /\ pc = "removed_status"
    /\ ret' = IF status.Success
              THEN [ret EXCEPT !.result = ResTrue]
              ELSE [ret EXCEPT !.result = ResFalse,
                               !.comment =
                                  <<"Failed to uninstall the feature ",
                                    ToString(status.ExitCode)>>]
    /\ pc' = "removed_relist"
    /\ UNCHANGED <<features, args, old, new, status, trace, exc, prev>>

\* lines 123-125
removed_status ==
    /\ pc = "removed_status"
    /\ LET r1 == [ret EXCEPT !.result = PyBool(status.Success)] IN
       IF r1.result # ResTrue /\ "feature" \notin DOMAIN r1.changes
       THEN /\ ret' = r1
            /\ exc' = "KeyError"
            /\ pc' = "raised"
       ELSE /\ ret' = IF r1.result # ResTrue
                      THEN [r1 EXCEPT !.comment =
                              <<"Failed to uninstall the feature ",
                                ToString(r1.changes["feature"].ExitCode)>>]
                      ELSE r1
            /\ exc' = exc
            /\ pc' = "removed_relist"
    /\ UNCHANGED <<features, args, old, new, status, trace, prev>>

\* slip: the snapshots are handed to compare_dicts the wrong way round
removed_relist_swapped ==
    /\ pc = "removed_relist"
    /\ new' = features
    /\ trace' = Append(trace, "list_installed")
    /\ ret' = [ret EXCEPT !.changes = compare_dicts(features, old)]
    /\ pc' = "done"
    /\ UNCHANGED <<features, args, old, status, exc, prev>>

removed_relist ==
    /\ pc = "removed_relist"
    /\ new' = features
    /\ trace' = Append(trace, "list_installed")
    /\ ret' = [ret EXCEPT !.changes = compare_dicts(old, features)]
    /\ pc' = "done"
    /\ UNCHANGED <<features, args, old, status, exc, prev>>

\* ---------------------------------------------------------- the engine
\* the invocation is over (return ret, or the exception leaves the
\* function); the engine remembers what the invocation was and did
finish ==
    /\ pc \in {"done", "raised"}
    /\ prev' = [fn |-> fn, name |-> name, recurse |-> recurse,
                force |-> force, test |-> test,
                absent |-> name \notin DOMAIN old,
                added |-> name \in DOMAIN features,
                installs |-> Count(trace, {"install"})]
    /\ pc' = "idle"
    /\ UNCHANGED <<features, args, ret, old, new, status, trace, exc>>

Next ==
    \/ call_installed
    \/ installed_list
    \/ installed_test
    \/ installed_install
    \/ installed_status
    \/ installed_relist
    \/ call_removed
    \/ removed_list
    \/ removed_test
    \/ removed_remove
    \/ removed_status
    \/ removed_relist
    \/ finish

Spec == Init /\ [][Next]_vars

\* ------------------------------------------------------------ properties
Reads == Count(trace, {"list_installed"})

MutCalls == Count(trace, Mutators)

Installs == Count(trace, {"install"})

Removes == Count(trace, {"remove"})

\* the first status read of the running invocation has been made
AfterFirstRead == pc \notin {"idle", "installed_list", "removed_list"}

\* the invocation is over: it returned its report or raised
Over == pc \in {"done", "raised"}

IsPrefix(s, t) == Len(s) <= Len(t) /\ \A i \in 1..Len(s) : s[i] = t[i]

\* C1: installed() on a name that is a key of the snapshot, with recurse and
\* force not both true, returns at once with result True, changes {} and the
\* "already installed" comment, and calls no mutator, whatever the test flag.
C1_AlreadyInstalled ==
    (fn = "installed" /\ AfterFirstRead /\ name \in DOMAIN old
        /\ ~(recurse /\ force))
    => /\ pc = "done"
       /\ ret.result = ResTrue
       /\ ret.changes = EmptyDict
       /\ ret.comment = <<"The feature ", name, " is already installed">>
       /\ MutCalls = 0
       /\ Reads = 1

C1_Witness ==
    /\ fn = "installed" /\ pc = "done" /\ name \in DOMAIN old
    /\ force /\ ~recurse /\ test
    /\ ret.result = ResTrue

\* C2: in dry-run mode, when the first read calls for a mutation, the
\* invocation returns result None with changes still {}, calls no mutator
\* and reads the status only once.
WouldMutate ==
    \/ fn = "installed" /\ (name \notin DOMAIN old \/ (force /\ recurse))
    \/ fn = "removed" /\ name \in DOMAIN old

C2_DryRun ==
    (AfterFirstRead /\ test /\ WouldMutate)
    => /\ pc \in {"installed_test", "removed_test", "done"}
       /\ pc = "done" => ret.result = ResNone
       /\ ret.changes = EmptyDict
       /\ MutCalls = 0
       /\ Reads = 1

C2_Witness ==
    /\ pc = "done" /\ test /\ fn = "installed"
    /\ name \in DOMAIN old /\ force /\ recurse
    /\ ret.result = ResNone

\* C3: without dry-run, when the mutation is attempted (installed on an
\* absent name, removed on a present one) and the mutator reports success,
\* the invocation returns result True and changes = diff(before, after),
\* having made exactly one mutating call between the two reads.
Disagrees ==
    \/ fn = "installed" /\ name \notin DOMAIN old
    \/ fn = "removed" /\ name \in DOMAIN old

C3_Success ==
    (Over /\ ~test /\ Disagrees /\ MutCalls >= 1 /\ status.Success)
    => /\ pc = "done"
       /\ ret.result = ResTrue
       /\ ret.changes = compare_dicts(old, new)
       /\ new = features
       /\ MutCalls = 1
       /\ trace = <<"list_installed",
                    IF fn = "installed" THEN "install" ELSE "remove",
                    "list_installed">>

C3_Witness ==
    /\ pc = "done" /\ fn = "removed" /\ ~test /\ Removes = 1
    /\ status.Success
    /\ name \in DOMAIN old /\ name \notin DOMAIN new
    /\ ret.changes # EmptyDict

\* C4: installed() on an absent name, without dry-run, whose install reports
\* failure, returns result False with the exit code in the comment after
\* exactly one install call.
C4_InstallFailureReported ==
    (fn = "installed" /\ Over /\ ~test /\ name \notin DOMAIN old
        /\ Installs >= 1 /\ ~status.Success)
    => /\ pc = "done"
       /\ ret.result = ResFalse
       /\ Contains(ret.comment, ToString(status.ExitCode))
       /\ Installs = 1

\* C5: removed() on a name that is not a key of the snapshot returns at once
\* with result True, changes {} and the "not installed" comment, and never
\* calls remove, whatever the test flag.
C5_NotInstalled ==
    (fn = "removed" /\ AfterFirstRead /\ name \notin DOMAIN old)
    => /\ pc = "done"
       /\ ret.result = ResTrue
       /\ ret.changes = EmptyDict
       /\ ret.comment = <<"The feature ", name, " is not installed">>
       /\ MutCalls = 0

C5_Witness ==
    /\ fn = "removed" /\ pc = "done" /\ name \notin DOMAIN old /\ test
    /\ features # EmptyDict

\* C6: when installed() ran without dry-run on an absent name (recurse and
\* force not both true) and its install added the name, the same call made
\* right after is already satisfied: result True, changes {}, no install;
\* one install call over the two invocations.
SecondOfTwo ==
    /\ fn = "installed" /\ prev.fn = "installed"
    /\ prev.name = name /\ prev.recurse = recurse /\ prev.force = force
    /\ ~(recurse /\ force)
    /\ prev.absent /\ ~prev.test /\ prev.added

C6_Idempotent ==
    (SecondOfTwo /\ AfterFirstRead)
    => /\ pc = "done"
       /\ ret.result = ResTrue
       /\ ret.changes = EmptyDict
       /\ Installs = 0
       /\ prev.installs + Installs = 1

C6_Witness ==
    /\ SecondOfTwo /\ pc = "done" /\ ~test /\ force
    /\ prev.installs = 1

\* C7: an invocation makes at most one mutating call, only when the first
\* read disagreed with the desired state (or force and recurse are both set
\* on an installed name), and that call comes after the first read and
\* before the second.
C7_AtMostOneMutation ==
    pc # "idle"
    => /\ MutCalls <= 1
       /\ MutCalls = 1 => WouldMutate
       /\ IsPrefix(trace, <<"list_installed",
                            IF fn = "installed" THEN "install" ELSE "remove",
                            "list_installed">>)

C7_Witness ==
    /\ pc = "done" /\ fn = "installed" /\ MutCalls = 1 /\ Reads = 2
    /\ name \in DOMAIN old /\ force /\ recurse

\* C8: no invocation ends with an error raised past installed/removed; a
\* failed mutation shows only in the report.
C8_NeverRaises ==
    /\ pc # "raised"
    /\ exc = "none"

\* C9: removed() on a present name, without dry-run, whose remove reports
\* failure, ends with a KeyError from ret['changes']['feature'] on the still
\* empty changes: one remove call made, no second read, no diff.
C9_RemoveFailureRaises ==
    (fn = "removed" /\ pc \notin {"idle", "removed_status"} /\ Removes >= 1
        /\ ~status.Success)
    => /\ pc = "raised"
       /\ exc = "KeyError"
       /\ name \in DOMAIN old
       /\ ~test
       /\ Removes = 1
       /\ Reads = 1
       /\ ret.changes = EmptyDict
       /\ new = EmptyDict

C9_Witness ==
    /\ fn = "removed" /\ pc = "raised" /\ exc = "KeyError"
    /\ ret.result = ResFalse /\ Removes = 1

\* C10: when installed() returns after its install call, changes is exactly
\* diff(before, after); the 'feature' entry that held the raw operation
\* result is gone, so changes does not depend on DisplayName.
C10_DiffOverwritesFeature ==
    (fn = "installed" /\ pc = "done" /\ Installs >= 1)
    => /\ ret.changes = compare_dicts(old, new)
       /\ "feature" \notin DOMAIN ret.changes

C10_Witness ==
    /\ fn = "installed" /\ pc = "done" /\ Installs = 1
    /\ ~Contains(status.DisplayName, "already installed")
    /\ ret.changes = compare_dicts(old, new)
    /\ ret.changes # EmptyDict

====
